---- MODULE Spec2Model ----
(***************************************************************************)
(* qtpylib/tools.py: resample(data, resolution, tz, ffill, dropna).        *)
(*                                                                         *)
(* A DataFrame is a sequence of rows (records) in index order. Timestamps  *)
(* are UTC instants in seconds. A tick row carries symbol, ts, last,       *)
(* lastsize and opt; a bar row carries symbol, ts, open, high, low, close, *)
(* volume and opt. The field opt stands for each of the ten opt_* columns, *)
(* which the code treats alike (aggregation 'last'). The metadata columns  *)
(* symbol_group and asset_class are copied per symbol and carry no logic.  *)
(* Price and size columns of the input hold numbers; opt may be missing.   *)
(*                                                                         *)
(* The module ends with RecurringTask, the thread of the same file that    *)
(* calls a function every interval_sec seconds until stop() is called.     *)
(***************************************************************************)
EXTENDS Integers, Sequences, FiniteSets, TLC

\* np.nan. Every number a column holds is >= 0 (bin labels, which may be
\* negative, are never tested against it).
NaN == -1

\* Python's None, as opposed to the string "None".
PyNone == "py:None"

\* Largest number of rows of an input DataFrame.
MaxRows == 3

\* Largest number of rows of an input DataFrame of bars.
MaxBars == 2

\* Largest period written in a resolution string.
MaxPeriod == 2

IsNull(x) == x = NaN

Max(S) == CHOOSE x \in S : \A y \in S : y <= x

Min(S) == CHOOSE x \in S : \A y \in S : x <= y

RECURSIVE SumSeq(_)
SumSeq(s) == IF s = <<>> THEN 0 ELSE s[1] + SumSeq(Tail(s))

\* The values of s that are not NaN, in order.
NonNull(s) == SelectSeq(s, LAMBDA x : ~IsNull(x))

\* GroupBy.first / .last / .max / .min / .sum skip NaN; an all-NaN group gives NaN
\* (sum: see SumNull and SumZero).
First(s) == IF NonNull(s) = <<>> THEN NaN ELSE NonNull(s)[1]

Last(s) == IF NonNull(s) = <<>> THEN NaN ELSE NonNull(s)[Len(NonNull(s))]

\* high taken as the first value of the group, not the largest.
MaxOf_First(s) == IF NonNull(s) = <<>> THEN NaN ELSE NonNull(s)[1]

MaxOf(s) == IF NonNull(s) = <<>> THEN NaN ELSE Max({NonNull(s)[i] : i \in 1..Len(NonNull(s))})

MinOf(s) == IF NonNull(s) = <<>> THEN NaN ELSE Min({NonNull(s)[i] : i \in 1..Len(NonNull(s))})

\* groupby(...).sum() of a group that has rows: NaN counts as 0.
SumZero(s) == SumSeq(NonNull(s))

\* resample(...).sum() of a bin with no rows is NaN (the code fills it with 0 at
\* line 383); of a bin with rows it is the sum.
SumNull(s) == IF s = <<>> THEN NaN ELSE SumSeq(NonNull(s))

\* Series.fillna(method='ffill'): each NaN takes the last earlier non-NaN value.
FFill(s) ==
    [i \in 1..Len(s) |->
        LET J == {j \in 1..i : ~IsNull(s[j])}
        IN  IF J = {} THEN NaN ELSE s[Max(J)]]

Col(rows, f) == [i \in 1..Len(rows) |-> rows[i][f]]

\* The symbols of the model, in ascending string order (the order of
\* groupby(["symbol"]) and so of meta_data.index.values).
SymOrder == <<"AAPL_STK", "SPY_OPT">>

Symbols == {SymOrder[i] : i \in 1..Len(SymOrder)}

SymRank(sym) == CHOOSE i \in 1..Len(SymOrder) : SymOrder[i] = sym

\* sym[-3:]
Suffix(sym) == IF sym = "SPY_OPT" THEN "OPT" ELSE "STK"

IsOption(sym) == Suffix(sym) \in {"OPT", "FOP"}

\* data[data['symbol']==sym]
SymRows(d, sym) == SelectSeq(d, LAMBDA r : r.symbol = sym)

\* The distinct symbols in the order they first appear in d.
SortedSymbols_Appearance(d) ==
    LET firsts == {i \in 1..Len(d) : \A j \in 1..(i - 1) : d[j].symbol # d[i].symbol}
    IN  [k \in 1..Cardinality(firsts) |->
            d[CHOOSE i \in firsts : Cardinality({j \in firsts : j <= i}) = k].symbol]

\* meta_data.index.values: the distinct symbols of d, ascending.
SortedSymbols(d) ==
    SelectSeq(SymOrder, LAMBDA s : \E i \in 1..Len(d) : d[i].symbol = s)

\* numpy's round: to the nearest integer, ties to the even one. a >= 0, b > 0.
RoundHalfEven(a, b) ==
    LET q == a \div b
        r == a % b
    IN  IF 2 * r < b THEN q
        ELSE IF 2 * r > b THEN q + 1
        ELSE IF q % 2 = 0 THEN q ELSE q + 1

\* df[size_col].cumsum()
CumSum(s) == [i \in 1..Len(s) |-> SumSeq(SubSeq(s, 1, i))]

\* The price and size columns resample_ticks reads: last/lastsize of ticks, else
\* close/volume of bars.
PriceCol(kind) == IF kind = "tick" THEN "last" ELSE "close"

SizeCol(kind) == IF kind = "tick" THEN "lastsize" ELSE "volume"

\* df['mark'] = round(round(round(cumvol / .1)*.1, 2)/freq) * freq
Mark(cumvol, freq) == RoundHalfEven(cumvol, freq) * freq

\* The column grp before the forward fill, by volume (lines 241-244).
VolumeMarks(sizes, freq) ==
    LET cumvol == CumSum(sizes)
        mark == [i \in 1..Len(sizes) |-> Mark(cumvol[i], freq)]
        diff == [i \in 1..Len(sizes) |-> IF i = 1 THEN 0 ELSE mark[i] - mark[i - 1]]
    IN  [i \in 1..Len(sizes) |->
            IF diff[i] >= freq - 1 THEN mark[i] \div freq ELSE NaN]

\* The row number counted from 1, not from 0.
TickMarks_FromOne(n, freq) ==
    [i \in 1..n |-> IF i % freq # 0 THEN NaN ELSE i]

\* The column grp before the forward fill, by tick count (line 246).
TickMarks(n, freq) ==
    [i \in 1..n |-> IF (i - 1) % freq # 0 THEN NaN ELSE i - 1]

\* df.loc[:1, 'grp'] = 0: on a DatetimeIndex the integer slice is positional,
\* so the first row alone is set.
ForceFirst(g) == [i \in 1..Len(g) |-> IF i = 1 THEN 0 ELSE g[i]]

\* The column grp of resample_ticks after the forward fill (lines 240-250).
GroupIds(rows, kind, freq, by) ==
    FFill(ForceFirst(
        IF by \in {"size", "lastsize", "volume"}
        THEN VolumeMarks(Col(rows, SizeCol(kind)), freq)
        ELSE TickMarks(Len(rows), freq)))

\* The keys of groupby(df.index, sort=False): distinct labels by first appearance.
GroupKeys(g) ==
    LET firsts == {i \in 1..Len(g) : \A j \in 1..(i - 1) : g[j] # g[i]}
    IN  SelectSeq([i \in 1..Len(g) |-> IF i \in firsts THEN g[i] ELSE NaN],
                  LAMBDA x : ~IsNull(x))

\* The positions of the rows labelled k, ascending.
Members(g, k) == SelectSeq([i \in 1..Len(g) |-> i], LAMBDA i : g[i] = k)

Pick(s, idx) == [j \in 1..Len(idx) |-> s[idx[j]]]

\* The timestamp of the first row of the frame, not of the group.
GroupStamp_Frame(rows, m) == rows[1].ts

\* groupped.T.head(1): the timestamp of the first row of the group (line 285).
GroupStamp(rows, m) == rows[m[1]].ts

\* resample_ticks (lines 214-288) on the rows of one symbol: one bar per group.
\* The forward fill of line 250 runs over every column, so a missing opt takes
\* the last earlier value of the symbol, whatever group that row is in.
resample_ticks(rows, kind, freq, by) ==
    LET g == GroupIds(rows, kind, freq, by)
        price == FFill(Col(rows, PriceCol(kind)))
        size == FFill(Col(rows, SizeCol(kind)))
        opt == FFill(Col(rows, "opt"))
        keys == GroupKeys(g)
    IN  [b \in 1..Len(keys) |->
            LET m == Members(g, keys[b])
            IN  [ts     |-> GroupStamp(rows, m),
                 open   |-> First(Pick(price, m)),
                 high   |-> MaxOf(Pick(price, m)),
                 low    |-> MinOf(Pick(price, m)),
                 close  |-> Last(Pick(price, m)),
                 volume |-> SumZero(Pick(size, m)),
                 opt    |-> Last(Pick(opt, m))]]

\* symdata.dropna(subset=['open','high','low','close','volume']) and, for
\* option symbols, symdata.dropna() (lines 308-310, 326-328, 406-408).
CoreComplete(b) ==
    /\ ~IsNull(b.open) /\ ~IsNull(b.high) /\ ~IsNull(b.low)
    /\ ~IsNull(b.close) /\ ~IsNull(b.volume)

Complete(b) == CoreComplete(b) /\ ~IsNull(b.opt)

Cleanup(bars, sym) ==
    SelectSeq(bars, LAMBDA b : CoreComplete(b) /\ (IsOption(sym) => Complete(b)))

\* The frequency letters pandas.resample is given in the model, in seconds; 0 for
\* a string that is no pandas frequency ("Invalid frequency", a ValueError).
OffsetSeconds(letters) ==
    CASE letters = <<"S">> -> 1
      [] letters = <<"T">> -> 60
      [] letters = <<"H">> -> 3600
      [] letters = <<"D">> -> 86400
      [] OTHER -> 0

\* "K" in resolution
Contains(resolution, letter) ==
    \E i \in 1..Len(resolution.letters) : resolution.letters[i] = letter

\* The UTC offset (seconds) of the index's timezone: bins start at local midnight.
UtcOffset(index) == IF index = "US/Eastern" THEN 0 - 18000 ELSE 0

IsDatetime(index) == index \in {"naive", "UTC", "US/Eastern"}

IsAware(index) == index \in {"UTC", "US/Eastern"}

\* The left edge (and label) of the bin of width w that holds ts.
BinLabel(ts, w, off) == ((ts + off) \div w) * w - off

\* The bins of resample(resolution): every bin from the first row's to the last
\* row's, with or without rows.
BinLabels(rows, w, off) ==
    LET lo == Min({BinLabel(rows[i].ts, w, off) : i \in 1..Len(rows)})
        hi == Max({BinLabel(rows[i].ts, w, off) : i \in 1..Len(rows)})
    IN  [k \in 1..((hi - lo) \div w + 1) |-> lo + (k - 1) * w]

InBin(rows, w, off, label) ==
    SelectSeq(rows, LAMBDA r : BinLabel(r.ts, w, off) = label)

\* Lines 369-375: the "S" branch, on ticks. No gap repair and no dropna here.
SecondsBars(rows, w, off) ==
    LET labels == BinLabels(rows, w, off)
    IN  [k \in 1..Len(labels) |->
            LET b == InBin(rows, w, off, labels[k])
            IN  [ts     |-> labels[k],
                 open   |-> First(Col(b, "last")),
                 high   |-> MaxOf(Col(b, "last")),
                 low    |-> MinOf(Col(b, "last")),
                 close  |-> Last(Col(b, "last")),
                 volume |-> SumNull(Col(b, "lastsize")),
                 opt    |-> Last(Col(b, "opt"))]]

\* Line 378: resample(resolution).apply(bars_ohlc_dict), on bars.
TimeBars(rows, w, off) ==
    LET labels == BinLabels(rows, w, off)
    IN  [k \in 1..Len(labels) |->
            LET b == InBin(rows, w, off, labels[k])
            IN  [ts     |-> labels[k],
                 open   |-> First(Col(b, "open")),
                 high   |-> MaxOf(Col(b, "high")),
                 low    |-> MinOf(Col(b, "low")),
                 close  |-> Last(Col(b, "close")),
                 volume |-> SumNull(Col(b, "volume")),
                 opt    |-> Last(Col(b, "opt"))]]

\* Line 381: the test for "new rows caused by resample".
HasNewRows(symdata, original_length) == Len(symdata) > original_length

\* Lines 383-384: volume 0 on the rows without volume, then ffill of every column.
FillVolumeAndFFill(symdata) ==
    LET volume == [i \in 1..Len(symdata) |->
                      IF IsNull(symdata[i].volume) THEN 0 ELSE symdata[i].volume]
        open  == FFill(Col(symdata, "open"))
        high  == FFill(Col(symdata, "high"))
        low   == FFill(Col(symdata, "low"))
        close == FFill(Col(symdata, "close"))
        opt   == FFill(Col(symdata, "opt"))
    IN  [i \in 1..Len(symdata) |->
            [symdata[i] EXCEPT !.volume = volume[i], !.open = open[i],
                               !.high = high[i], !.low = low[i],
                               !.close = close[i], !.opt = opt[i]]]

\* Lines 387-395: the rows with volume <= 0 take their close (ffill) or NaN.
FillFlat(symdata, ffill) ==
    [i \in 1..Len(symdata) |->
        IF symdata[i].volume <= 0
        THEN IF ffill
             THEN [symdata[i] EXCEPT !.open = symdata[i].close,
                                     !.high = symdata[i].close,
                                     !.low = symdata[i].close]
             ELSE [symdata[i] EXCEPT !.open = NaN, !.high = NaN,
                                     !.low = NaN, !.close = NaN]
        ELSE symdata[i]]

\* Lines 380-395.
GapFill(symdata, original_length, ffill) ==
    IF HasNewRows(symdata, original_length)
    THEN FillFlat(FillVolumeAndFFill(symdata), ffill)
    ELSE symdata

\* Lines 398-399: symdata.dropna(inplace=True), over every column.
DropNa(symdata, dropna) ==
    IF dropna THEN SelectSeq(symdata, Complete) ELSE symdata

\* symdata['symbol'] = sym (lines 303, 321, 401).
WithSymbol(bars, sym) ==
    [i \in 1..Len(bars) |->
        [symbol |-> sym, ts |-> bars[i].ts, open |-> bars[i].open,
         high |-> bars[i].high, low |-> bars[i].low, close |-> bars[i].close,
         volume |-> bars[i].volume, opt |-> bars[i].opt]]

\* One pass of the loops at lines 300-312, 318-330 and 367-410: the bars of one
\* symbol, the labels its rows were given, or the exception raised on the way.
ResampleSymbol(d, kind, index, resolution, periods, ffill, dropna, sym) ==
    LET rows == SymRows(d, sym)
        w == periods * OffsetSeconds(resolution.letters)
        off == UtcOffset(index)
        none == [err |-> PyNone, bars |-> <<>>, grp |-> <<>>]
    IN  IF Contains(resolution, "K")
        THEN [none EXCEPT
                 !.bars = WithSymbol(Cleanup(resample_ticks(rows, kind, periods, "last"), sym), sym),
                 !.grp = GroupIds(rows, kind, periods, "last")]
        ELSE IF Contains(resolution, "V")
        THEN [none EXCEPT
                 !.bars = WithSymbol(Cleanup(resample_ticks(rows, kind, periods, "lastsize"), sym), sym),
                 !.grp = GroupIds(rows, kind, periods, "lastsize")]
        ELSE IF Contains(resolution, "S")
        THEN IF kind # "tick" THEN [none EXCEPT !.err = "KeyError"]
             ELSE IF w = 0 THEN [none EXCEPT !.err = "ValueError"]
             ELSE IF ~IsDatetime(index) THEN [none EXCEPT !.err = "TypeError"]
             ELSE [none EXCEPT
                      !.bars = WithSymbol(Cleanup(SecondsBars(rows, w, off), sym), sym),
                      !.grp = [i \in 1..Len(rows) |-> BinLabel(rows[i].ts, w, off)]]
        ELSE IF w = 0 THEN [none EXCEPT !.err = "ValueError"]
        ELSE IF ~IsDatetime(index) THEN [none EXCEPT !.err = "TypeError"]
        ELSE IF kind # "bar" THEN [none EXCEPT !.err = "KeyError"]
        ELSE [none EXCEPT
                 !.bars = WithSymbol(Cleanup(DropNa(GapFill(TimeBars(rows, w, off),
                                                            Len(rows), ffill),
                                                    dropna), sym), sym),
                 !.grp = [i \in 1..Len(rows) |-> BinLabel(rows[i].ts, w, off)]]

\* pd.concat(combined)
RECURSIVE Concat(_)
Concat(frames) == IF frames = <<>> THEN <<>> ELSE frames[1] \o Concat(Tail(frames))

\* The timezones pytz knows, among the names of the model.
Zones == {"UTC", "US/Eastern"}

(***************************************************************************)
(* The call. args holds the arguments as the caller passed them; data,     *)
(* kind (the columns of data: "tick" or "bar"), index (the timezone state  *)
(* of data.index: "naive", a zone, or "object" for an index that is no     *)
(* DatetimeIndex) and tz are the names the body reassigns; periods,        *)
(* meta_data and combined are its locals; grp maps each symbol bucketed so *)
(* far to the bucket labels of its rows; pc is the place in the body and   *)
(* err the exception it raised.                                            *)
(***************************************************************************)
VARIABLES args, data, kind, index, tz, periods, meta_data, combined, grp, pc, err

(***************************************************************************)
(* A RecurringTask (lines 590-645) and the threads around it. running,     *)
(* functime, interval_sec and init_sec are the object's fields _running,   *)
(* _functime, interval_sec and init_sec; start is the local of run();      *)
(* run_pc is the place of the task thread in run() and stop_pc that of the *)
(* caller thread in stop(); wake is the time at which the sleeping task    *)
(* thread wakes and clock is time.time(), in seconds; invocations counts   *)
(* the calls of _func begun and stops the calls of stop() returned.        *)
(***************************************************************************)
VARIABLES running, functime, interval_sec, init_sec, start, wake, clock,
          run_pc, stop_pc, invocations, stops

resample_vars == <<args, data, kind, index, tz, periods, meta_data, combined, grp, pc, err>>

task_vars == <<running, functime, interval_sec, init_sec, start, wake, clock,
               run_pc, stop_pc, invocations, stops>>

vars == <<resample_vars, task_vars>>

\* No RecurringTask has been constructed: resample() starts no thread.
NoTask ==
    /\ running = FALSE
    /\ functime = NaN
    /\ interval_sec = 0
    /\ init_sec = 0
    /\ start = NaN
    /\ wake = NaN
    /\ clock = 0
    /\ run_pc = "unstarted"
    /\ stop_pc = "unstarted"
    /\ invocations = 0
    /\ stops = 0

TickRows(Syms, Times, Prices, Sizes, Opts) ==
    [symbol : Syms, ts : Times, last : Prices, lastsize : Sizes, opt : Opts]

\* The bars a feed can hold: low <= open <= high and low <= close <= high.
Shapes(Prices) ==
    {b \in [open : Prices, high : Prices, low : Prices, close : Prices] :
        /\ b.low <= b.open /\ b.open <= b.high
        /\ b.low <= b.close /\ b.close <= b.high}

BarRows(Syms, Times, Prices, Sizes, Opts) ==
    {[symbol |-> s, ts |-> t, open |-> b.open, high |-> b.high, low |-> b.low,
      close |-> b.close, volume |-> v, opt |-> o] :
        s \in Syms, t \in Times, b \in Shapes(Prices), v \in Sizes, o \in Opts}

\* The DataFrames of at most n rows over R, in ascending timestamp order.
Datasets(R, n) ==
    {d \in UNION {[1..k -> R] : k \in 0..n} :
        \A i \in 1..(Len(d) - 1) : d[i].ts <= d[i + 1].ts}

\* A resolution string: its digits as a number (NaN when it has none) and its
\* other characters.
Resolutions(Nums, Units) == [num : Nums, letters : Units]

Calls(Data, Kinds, Indexes, Res, Tzs, Ffills, Dropnas) ==
    [data : Data, kind : Kinds, index : Indexes, resolution : Res,
     tz : Tzs, ffill : Ffills, dropna : Dropnas]

\* The state at the entry of resample(...) for a call of the set.
Entry(calls) ==
    /\ args \in calls
    /\ data = args.data
    /\ kind = args.kind
    /\ index = args.index
    /\ tz = args.tz
    /\ periods = 0
    /\ meta_data = <<>>
    /\ combined = <<>>
    /\ grp = <<>>
    /\ pc = "entry"
    /\ err = PyNone
    /\ NoTask

Raise(e) ==
    /\ pc' = "raised"
    /\ err' = e

\* Lines 291-299, 316-317: the length test, int(digits), meta_data, and the
\* choice of the branch.
Enter ==
    /\ pc = "entry"
    /\ IF Len(data) > 0
       THEN IF IsNull(args.resolution.num)
            THEN /\ Raise("ValueError")
                 /\ UNCHANGED <<periods, meta_data>>
            ELSE /\ periods' = args.resolution.num
                 /\ meta_data' = SortedSymbols(data)
                 /\ pc' = IF /\ \/ Contains(args.resolution, "K")
                                \/ Contains(args.resolution, "V")
                             /\ args.resolution.num <= 1
                          THEN "timezone"
                          ELSE "loop"
                 /\ err' = err
       ELSE /\ pc' = "timezone"
            /\ UNCHANGED <<periods, meta_data, err>>
    /\ UNCHANGED <<args, data, kind, index, tz, combined, grp>>
    /\ UNCHANGED task_vars

\* One pass of the for loop over meta_data.index.values.
BucketSymbol ==
    /\ pc = "loop"
    /\ Len(combined) < Len(meta_data)
    /\ LET sym == meta_data[Len(combined) + 1]
           r == ResampleSymbol(data, kind, index, args.resolution, periods,
                               args.ffill, args.dropna, sym)
       IN  IF r.err # PyNone
           THEN /\ Raise(r.err)
                /\ UNCHANGED <<combined, grp>>
           ELSE /\ combined' = Append(combined, r.bars)
                /\ grp' = Append(grp, r.grp)
                /\ UNCHANGED <<pc, err>>
    /\ UNCHANGED <<args, data, kind, index, tz, periods, meta_data>>
    /\ UNCHANGED task_vars

\* Lines 314, 332, 412-413: data = pd.concat(combined).
Combine ==
    /\ pc = "loop"
    /\ Len(combined) = Len(meta_data)
    /\ data' = Concat(combined)
    /\ kind' = "bar"
    /\ pc' = "timezone"
    /\ UNCHANGED <<args, index, tz, periods, meta_data, combined, grp, err>>
    /\ UNCHANGED task_vars

\* Lines 416-420: tz = str(data.index.tz) when no tz was given.
FigureTimezone ==
    /\ pc = "timezone"
    /\ tz' = IF tz # PyNone THEN tz
             ELSE IF ~IsDatetime(index) THEN PyNone
             ELSE IF IsAware(index) THEN index
             ELSE "None"
    /\ pc' = "convert"
    /\ UNCHANGED <<args, data, kind, index, periods, meta_data, combined, grp, err>>
    /\ UNCHANGED task_vars

\* Lines 422-428: tz_convert, else tz_localize('UTC').tz_convert; then return.
ConvertTimezone ==
    /\ pc = "convert"
    /\ IF tz = PyNone
       THEN /\ pc' = "returned"
            /\ UNCHANGED <<index, err>>
       ELSE IF IsAware(index) /\ tz \in Zones
       THEN /\ index' = tz
            /\ pc' = "returned"
            /\ err' = err
       ELSE IF index = "naive" /\ tz \in Zones
       THEN /\ index' = tz
            /\ pc' = "returned"
            /\ err' = err
       ELSE /\ Raise(IF ~IsDatetime(index) THEN "AttributeError"
                     ELSE IF IsAware(index) THEN "TypeError"
                     ELSE "UnknownTimeZoneError")
            /\ index' = index
    /\ UNCHANGED <<args, data, kind, tz, periods, meta_data, combined, grp>>
    /\ UNCHANGED task_vars

Next == Enter \/ BucketSymbol \/ Combine \/ FigureTimezone \/ ConvertTimezone

\* The rows the call returned.
Returned == pc = "returned"

Periods == 1..MaxPeriod

\* Calls on one symbol with every price shape: ticks by count, by volume and by
\* second; bars by count and by volume (resample_ticks falls back on close and
\* volume); bars by minute and by hour under every ffill/dropna setting, with
\* empty minutes between the rows and rows of volume 0.
PriceCalls ==
    Calls(Datasets(TickRows({"AAPL_STK"}, {0, 1, 3}, {1, 2}, {0, 2}, {NaN}), MaxRows),
          {"tick"}, {"UTC"},
          Resolutions(Periods, {<<"K">>, <<"V">>, <<"S">>}),
          {PyNone}, {TRUE}, {FALSE})
    \cup
    Calls(Datasets(BarRows({"AAPL_STK"}, {0}, {1, 2}, {1, 2}, {5}), MaxBars),
          {"bar"}, {"UTC"},
          Resolutions(Periods, {<<"K">>, <<"V">>}),
          {PyNone}, {TRUE}, {FALSE})
    \cup
    Calls(Datasets(BarRows({"AAPL_STK"}, {0, 120}, {1, 2}, {0, 1}, {5}), MaxBars),
          {"bar"}, {"UTC"},
          Resolutions(Periods, {<<"T">>, <<"H">>}),
          {PyNone}, BOOLEAN, BOOLEAN)

Init == Entry(PriceCalls)

Spec == Init /\ [][Next]_vars

OHLC(b) == <<b.open, b.high, b.low, b.close>>

Consistent(b) ==
    /\ b.low <= b.open /\ b.open <= b.high
    /\ b.low <= b.close /\ b.close <= b.high

\* C1: every bar resample returns whose OHLC is non-null has
\* low <= open <= high and low <= close <= high, and volume >= 0 (the inputs have
\* sizes >= 0 and consistent bars).
C1_BarsConsistent ==
    (Returned /\ kind = "bar") =>
        \A i \in 1..Len(data) :
            /\ (\A k \in 1..4 : ~IsNull(OHLC(data[i])[k])) => Consistent(data[i])
            /\ data[i].volume >= 0

\* C1 witness: a minute resample with ffill returned a bar with low < high and a
\* bar made for an empty minute.
C1_Witness ==
    /\ Returned
    /\ combined # <<>>
    /\ Contains(args.resolution, "T")
    /\ args.ffill
    /\ \E i, j \in 1..Len(data) :
        /\ data[i].low < data[i].high
        /\ data[j].volume = 0
        /\ \A k \in 1..Len(args.data) : args.data[k].ts # data[j].ts

\* Calls by tick count on ticks of a stock and of an option, the opt column
\* missing or not.
TickCalls ==
    Calls(Datasets(TickRows(Symbols, {0, 1}, {1}, {1}, {NaN, 5}), MaxRows + 1),
          {"tick"}, {"UTC"},
          Resolutions(Periods, {<<"K">>}),
          {PyNone}, {TRUE}, {FALSE})

SpecTicks == Entry(TickCalls) /\ [][Next]_vars

\* The number of buckets of n rows by p.
Buckets(n, p) == (n + p - 1) \div p

\* The labels g split their rows, in order, into runs of exactly p rows, the
\* last run alone being allowed fewer.
PartitionedBy(g, p) ==
    \A i \in 1..Len(g) :
        LET m == Members(g, g[i])
        IN  /\ \A j \in 1..Len(m) : m[j] = m[1] + j - 1
            /\ (m[1] - 1) % p = 0
            /\ Len(m) = p \/ (Len(m) < p /\ m[Len(m)] = Len(g))

\* The buckets of an option's rows in which opt is missing on every row up to
\* the end of the bucket: the completeness filter drops their bars.
NeverQuoted(rows, g) ==
    {k \in {g[i] : i \in 1..Len(g)} :
        \A i \in 1..Len(g) : (\E j \in i..Len(g) : g[j] = k) => IsNull(rows[i].opt)}

\* C2 as claimed: by tick count with any period p >= 1, each symbol's n rows
\* fall into consecutive buckets of exactly p rows (the last may hold fewer) and
\* the output holds one row per bucket.
C2_OneBarPerBucket ==
    Returned =>
        \A s \in Symbols :
            /\ Len(SymRows(data, s)) =
                   Buckets(Len(SymRows(args.data, s)), args.resolution.num)
            /\ \A j \in 1..Len(grp) :
                   PartitionedBy(grp[j], args.resolution.num)

\* C2 amended: the buckets are as claimed, and the output holds one row per
\* bucket, but for an option symbol (suffix OPT or FOP) and p > 1 the buckets
\* with no auxiliary value observed in them or before them give no bar; with
\* p = 1 the input rows are returned as they are.
C2_OneBarPerCompleteBucket ==
    /\ \A j \in 1..Len(grp) :
           LET rows == SymRows(args.data, meta_data[j])
           IN  /\ PartitionedBy(grp[j], args.resolution.num)
               /\ Len(grp[j]) = Len(rows)
               /\ Len(combined[j]) =
                      Buckets(Len(rows), args.resolution.num)
                      - (IF IsOption(meta_data[j])
                         THEN Cardinality(NeverQuoted(rows, grp[j]))
                         ELSE 0)
    /\ Returned =>
           IF args.resolution.num > 1
           THEN data = Concat(combined) /\ Len(combined) = Len(meta_data)
           ELSE data = args.data

\* C2 witness: an option's rows made two buckets by p = 2, the first with no
\* auxiliary value and dropped, the second kept; the stock kept its bars.
C2_Witness ==
    /\ Returned
    /\ args.resolution.num = 2
    /\ Len(meta_data) = 2
    /\ Len(grp[2]) = 3
    /\ Len(combined[2]) = 1
    /\ Len(combined[1]) = 1

\* Calls by tick count and by volume on ticks of both symbols, with every price,
\* size and auxiliary value.
CountCalls ==
    Calls(Datasets(TickRows(Symbols, {0, 1}, {1, 2}, {1, 2}, {NaN, 5}), MaxRows),
          {"tick"}, {"UTC"},
          Resolutions(Periods, {<<"K">>, <<"V">>}),
          {PyNone}, {TRUE}, {FALSE})

SpecCount == Entry(CountCalls) /\ [][Next]_vars

\* C3 as claimed: by volume with period p, a row is in bucket n exactly when
\* the running sum of the sizes at that row lies in [n*p, (n+1)*p).
C3_BucketIsFloorOfCumVol ==
    Contains(args.resolution, "V") =>
        \A j \in 1..Len(grp) :
            LET cumvol == CumSum(Col(SymRows(args.data, meta_data[j]), "lastsize"))
            IN  \A i \in 1..Len(grp[j]) :
                    /\ grp[j][i] * periods <= cumvol[i]
                    /\ cumvol[i] < (grp[j][i] + 1) * periods

\* The reference reduction of the rows at positions m.
ReferenceBar(rows, m) ==
    [symbol |-> rows[1].symbol,
     ts     |-> rows[m[1]].ts,
     open   |-> rows[m[1]].last,
     high   |-> Max({rows[m[i]].last : i \in 1..Len(m)}),
     low    |-> Min({rows[m[i]].last : i \in 1..Len(m)}),
     close  |-> rows[m[Len(m)]].last,
     volume |-> SumSeq([i \in 1..Len(m) |-> rows[m[i]].lastsize]),
     opt    |-> Last([i \in 1..Len(m) |-> rows[m[i]].opt])]

\* C4 as claimed: in the count-based modes every bar is the reference reduction
\* of the records of its own bucket: first, max, min and last price, summed
\* size, first timestamp, and for the auxiliary field the last non-null value
\* among the bucket's own records.
C4_BarIsReductionOfItsBucket ==
    \A j \in 1..Len(combined) :
        LET rows == SymRows(args.data, meta_data[j])
        IN  \A b \in 1..Len(combined[j]) :
                \E i \in 1..Len(grp[j]) :
                    combined[j][b] = ReferenceBar(rows, Members(grp[j], grp[j][i]))

\* Calls by minute on bars and by second on ticks of a stock, with empty
\* intervals between the rows, under every ffill/dropna setting.
TimeCalls ==
    Calls(Datasets(BarRows({"AAPL_STK"}, {0, 120}, {1, 2}, {1}, {NaN, 5}), MaxRows),
          {"bar"}, {"UTC"},
          Resolutions(Periods, {<<"T">>}),
          {PyNone}, BOOLEAN, BOOLEAN)
    \cup
    Calls(Datasets(TickRows({"AAPL_STK"}, {0, 1, 3}, {1, 2}, {1}, {NaN, 5}), MaxRows),
          {"tick"}, {"UTC"},
          Resolutions(Periods, {<<"S">>}),
          {PyNone}, BOOLEAN, BOOLEAN)

SpecTime == Entry(TimeCalls) /\ [][Next]_vars

\* The same calls with dropna left off.
GapCalls == {c \in TimeCalls : ~c.dropna}

SpecGaps == Entry(GapCalls) /\ [][Next]_vars

\* The width and the offset of the bins of the call.
Width == args.resolution.num * OffsetSeconds(args.resolution.letters)

\* The close of the most recent interval before label that has rows.
PreviousClose(rows, price, label) ==
    LET earlier == SelectSeq(rows, LAMBDA r : BinLabel(r.ts, Width, UtcOffset(args.index)) < label)
    IN  earlier[Len(earlier)][price]

\* C5 as claimed: on the time-based path with ffill, every interval between a
\* symbol's first and last record that holds no record of it has a bar in the
\* output, with volume 0 and open = high = low = close = the close of the most
\* recent earlier interval that had records.
C5_EmptyIntervalsFilled ==
    (Returned /\ args.ffill /\ combined # <<>>) =>
        \A j \in 1..Len(meta_data) :
            LET rows == SymRows(args.data, meta_data[j])
                labels == BinLabels(rows, Width, UtcOffset(args.index))
            IN  \A k \in 1..Len(labels) :
                    InBin(rows, Width, UtcOffset(args.index), labels[k]) = <<>> =>
                        \E b \in 1..Len(data) :
                            LET c == PreviousClose(rows, PriceCol(args.kind), labels[k])
                            IN  /\ data[b].symbol = meta_data[j]
                                /\ data[b].ts = labels[k]
                                /\ data[b].volume = 0
                                /\ OHLC(data[b]) = <<c, c, c, c>>

\* C6 as claimed: with dropna, every bucket whose close is non-null after the
\* fill is kept, whatever its auxiliary fields hold (stated for the symbols
\* that are no options, whose bars the later cleanup keeps when their OHLC and
\* volume are there).
C6_DropnaKeepsBucketsWithClose ==
    (args.dropna /\ Contains(args.resolution, "T")) =>
        \A j \in 1..Len(combined) :
            LET rows == SymRows(args.data, meta_data[j])
                filled == GapFill(TimeBars(rows, Width, UtcOffset(args.index)),
                                  Len(rows), args.ffill)
            IN  ~IsOption(meta_data[j]) =>
                    \A k \in 1..Len(filled) :
                        ~IsNull(filled[k].close) =>
                            \E b \in 1..Len(combined[j]) :
                                combined[j][b].ts = filled[k].ts

\* Calls on both symbols, their rows interleaved in any way and their
\* timestamps repeated or not: ticks by count, volume and second, bars by
\* minute and hour.
KeyCalls ==
    Calls(Datasets(TickRows(Symbols, {0, 1, 3}, {1}, {1, 2}, {5}), MaxRows),
          {"tick"}, {"UTC"},
          Resolutions(Periods, {<<"K">>, <<"V">>, <<"S">>}),
          {PyNone}, {TRUE}, {FALSE})
    \cup
    Calls(Datasets(BarRows(Symbols, {0, 60, 180}, {1}, {1}, {5}), MaxRows),
          {"bar"}, {"UTC"},
          Resolutions(Periods, {<<"T">>, <<"H">>}),
          {PyNone}, BOOLEAN, BOOLEAN)

SpecKeys == Entry(KeyCalls) /\ [][Next]_vars

UniqueKeys(d) ==
    \A i, j \in 1..Len(d) :
        (d[i].symbol = d[j].symbol /\ d[i].ts = d[j].ts) => i = j

\* Rows ordered by symbol, and by timestamp within a symbol.
SortedBySymbolThenTime(d) ==
    \A i \in 1..(Len(d) - 1) :
        \/ SymRank(d[i].symbol) < SymRank(d[i + 1].symbol)
        \/ d[i].symbol = d[i + 1].symbol /\ d[i].ts <= d[i + 1].ts

\* The call resamples by time (resolution without "K" and without "V").
TimeBased == ~Contains(args.resolution, "K") /\ ~Contains(args.resolution, "V")

\* The call aggregates: by time, or by count with a period above 1.
Aggregates == TimeBased \/ args.resolution.num > 1

\* C7 as claimed: for every input, timestamps repeated or not, no two bars of
\* the output share (symbol, timestamp).
C7_KeysUnique == (Returned /\ kind = "bar") => UniqueKeys(data)

\* C7 amended: no two rows of the output share (symbol, timestamp) when the
\* resolution is time-based, or when no two input rows of a symbol have the
\* same timestamp.
C7_KeysUniqueIfInputUnique ==
    (Returned /\ (TimeBased \/ UniqueKeys(args.data))) => UniqueKeys(data)

\* C7 witness: a count-based call with a period above 1 returned several bars
\* of one symbol from rows of distinct timestamps.
C7_Witness ==
    /\ Returned
    /\ ~TimeBased
    /\ args.resolution.num > 1
    /\ UniqueKeys(args.data)
    /\ \E i, j \in 1..Len(data) : i # j /\ data[i].symbol = data[j].symbol

TzCalls ==
    Calls(Datasets(TickRows({"AAPL_STK"}, {0, 1}, {1, 2}, {1}, {NaN}), MaxRows),
          {"tick"}, {"naive", "UTC", "US/Eastern"},
          Resolutions(Periods, {<<"K">>}),
          {PyNone, "UTC", "US/Eastern"}, {TRUE}, {FALSE})
    \cup
    Calls(Datasets(BarRows({"AAPL_STK"}, {0, 120}, {1}, {1}, {NaN}), MaxRows),
          {"bar"}, {"naive", "UTC", "US/Eastern"},
          Resolutions(Periods, {<<"T">>}),
          {PyNone, "UTC", "US/Eastern"}, {TRUE}, {FALSE})

SpecTz == Entry(TzCalls) /\ [][Next]_vars

\* The timezone the output index is to have.
ExpectedZone ==
    IF args.tz # PyNone THEN args.tz
    ELSE IF IsAware(args.index) THEN args.index
    ELSE "UTC"

\* C9 as claimed: the output index has the requested tz; with tz omitted it has
\* the input's timezone if the input is aware and UTC if it is naive; the
\* timezone step raises in none of these cases.
C9_OutputZone ==
    args.data # <<>> =>
        /\ pc # "raised"
        /\ Returned => index = ExpectedZone

\* The resolution strings of the configuration calls: "1K".."pK", "pV", "pS",
\* and "XYZ", "pX", "p" (no unit letter), "K" (no digits).
ConfigResolutions ==
    Resolutions(Periods, {<<"K">>, <<"V">>, <<"S">>, <<"X">>, <<>>})
    \cup Resolutions({NaN}, {<<"X", "Y", "Z">>, <<"K">>})

\* Calls on ticks, none or some, with resolutions well and ill formed.
ConfigCalls ==
    Calls(Datasets(TickRows(Symbols, {0, 1}, {1}, {1}, {5}), MaxRows),
          {"tick"}, {"UTC"}, ConfigResolutions,
          {PyNone}, {TRUE}, {FALSE})

SpecConfig == Entry(ConfigCalls) /\ [][Next]_vars

\* The unit letters the specification names.
UnitLetters == {"K", "V", "S", "T", "H", "D", "W"}

\* A resolution with digits and exactly one unit letter, one of UnitLetters.
WellFormed(resolution) ==
    /\ ~IsNull(resolution.num)
    /\ Len(resolution.letters) = 1
    /\ resolution.letters[1] \in UnitLetters

\* C10 as claimed: for an input of any number of rows, an ill-formed resolution
\* ends in an error raised before any symbol is bucketed, and no output is
\* returned.
C10_BadResolutionRaises ==
    ~WellFormed(args.resolution) =>
        /\ ~Returned
        /\ combined = <<>>

\* The indexes a zero-row DataFrame can have: a DatetimeIndex, naive or aware,
\* or an index that is no DatetimeIndex (pd.DataFrame() has one).
EmptyIndexes == {"naive", "UTC", "US/Eastern", "object"}

\* Calls with tz given or omitted and every count and time resolution: on no
\* rows under every index, and on some rows under a DatetimeIndex.
EmptyCalls ==
    Calls({<<>>}, {"tick", "bar"}, EmptyIndexes,
          Resolutions(Periods, {<<"K">>, <<"V">>, <<"S">>, <<"T">>, <<"H">>, <<"D">>}),
          {PyNone, "UTC", "US/Eastern"}, BOOLEAN, BOOLEAN)
    \cup
    Calls(Datasets(TickRows({"AAPL_STK"}, {0, 1}, {1}, {1}, {NaN}), MaxRows),
          {"tick"}, {"naive", "UTC", "US/Eastern"},
          Resolutions(Periods, {<<"K">>, <<"V">>, <<"S">>}),
          {PyNone, "UTC", "US/Eastern"}, {TRUE}, {FALSE})

SpecEmpty == Entry(EmptyCalls) /\ [][Next]_vars

\* C11 as claimed: for a zero-row input, whatever its index (aware, naive or
\* no DatetimeIndex), the resolution and tz (given or omitted), resample raises
\* no exception and returns an empty output.
C11_EmptyInputReturnsEmpty ==
    args.data = <<>> =>
        /\ pc # "raised"
        /\ Returned => data = <<>>

\* The rows a call c of resample returns when it raises nothing: lines 291-413
\* as one function of the arguments (the timezone step changes no row).
resample(c) ==
    IF Len(c.data) = 0 THEN c.data
    ELSE IF /\ Contains(c.resolution, "K") \/ Contains(c.resolution, "V")
            /\ c.resolution.num <= 1
    THEN c.data
    ELSE LET syms == SortedSymbols(c.data)
         IN  Concat([j \in 1..Len(syms) |->
                        ResampleSymbol(c.data, c.kind, c.index, c.resolution,
                                       c.resolution.num, c.ffill, c.dropna,
                                       syms[j]).bars])

\* Calls by minute on bars and by second on ticks of a stock, the rows repeated
\* in an interval or not, with empty intervals between them and bars of
\* volume 0, under every ffill/dropna setting.
FirstCalls ==
    Calls(Datasets(BarRows({"AAPL_STK"}, {0, 120}, {1, 2}, {0, 1}, {5}), MaxRows),
          {"bar"}, {"UTC"},
          Resolutions(Periods, {<<"T">>}),
          {PyNone}, BOOLEAN, BOOLEAN)
    \cup
    Calls(Datasets(TickRows({"AAPL_STK"}, {0, 1, 3}, {1, 2}, {1}, {5}), MaxRows),
          {"tick"}, {"UTC"},
          Resolutions(Periods, {<<"S">>}),
          {PyNone}, BOOLEAN, BOOLEAN)

\* resample(resample(data, resolution, ffill=.., dropna=..), resolution, ffill=..,
\* dropna=..): the calls whose data is what a first call returned, with the
\* resolution and the settings of that call.
AlignedCalls ==
    {[c EXCEPT !.data = resample(c), !.kind = "bar"] : c \in FirstCalls}

SpecAligned == Entry(AlignedCalls) /\ [][Next]_vars

\* C12 as claimed: at every time resolution and under every ffill/dropna
\* setting, resample applied to the rows a previous call at that resolution
\* returned (a series already bucketed and aligned) raises nothing and returns
\* rows identical to its input.
C12_Idempotent ==
    /\ pc # "raised"
    /\ Returned => data = args.data

(***************************************************************************)
(* RecurringTask. The task thread executes run() one statement at a time   *)
(* and the caller thread calls stop(); the interpreter may switch threads  *)
(* between any two statements, so a step of one thread is an action.       *)
(* time.sleep(d) called at time t returns once the clock has reached       *)
(* t + d; the callback takes any time to return.                           *)
(***************************************************************************)

\* Largest value of time.time().
MaxClock == 3

\* Largest number of calls of stop().
MaxStops == 2

\* Largest number of iterations of the loop of run().
MaxInvocations == 2

\* resample() is not being called.
NoCall ==
    /\ args = PyNone
    /\ data = <<>>
    /\ kind = PyNone
    /\ index = PyNone
    /\ tz = PyNone
    /\ periods = 0
    /\ meta_data = <<>>
    /\ combined = <<>>
    /\ grp = <<>>
    /\ pc = "uncalled"
    /\ err = PyNone

\* After RecurringTask(func, interval_sec, init_sec): __init__ has set the
\* fields and started the thread (lines 619-626).
InitTask ==
    /\ NoCall
    /\ running = TRUE
    /\ functime = NaN
    /\ interval_sec \in {1, 2}
    /\ init_sec \in {0, 1}
    /\ start = NaN
    /\ wake = NaN
    /\ clock = 0
    /\ run_pc = "init_sec"
    /\ stop_pc = "ready"
    /\ invocations = 0
    /\ stops = 0

\* Line 633-634: if self.init_sec: time.sleep(self.init_sec)
InitSleep ==
    /\ run_pc = "init_sec"
    /\ IF init_sec # 0
       THEN /\ wake' = clock + init_sec
            /\ run_pc' = "init_sleep"
       ELSE /\ wake' = wake
            /\ run_pc' = "functime"
    /\ UNCHANGED <<running, functime, interval_sec, init_sec, start, clock,
                   stop_pc, invocations, stops>>
    /\ UNCHANGED resample_vars

\* time.sleep(self.init_sec) returns.
InitWake ==
    /\ run_pc = "init_sleep"
    /\ clock >= wake
    /\ run_pc' = "functime"
    /\ UNCHANGED <<running, functime, interval_sec, init_sec, start, wake, clock,
                   stop_pc, invocations, stops>>
    /\ UNCHANGED resample_vars

\* Line 635: self._functime = time.time()
SetFunctime ==
    /\ run_pc = "functime"
    /\ functime' = clock
    /\ run_pc' = "while"
    /\ UNCHANGED <<running, interval_sec, init_sec, start, wake, clock,
                   stop_pc, invocations, stops>>
    /\ UNCHANGED resample_vars

\* Line 636: while self._running
TestRunning ==
    /\ run_pc = "while"
    /\ running => invocations < MaxInvocations
    /\ run_pc' = IF running THEN "start" ELSE "done"
    /\ UNCHANGED <<running, functime, interval_sec, init_sec, start, wake, clock,
                   stop_pc, invocations, stops>>
    /\ UNCHANGED resample_vars

\* Line 637: start = time.time()
ReadStart ==
    /\ run_pc = "start"
    /\ start' = clock
    /\ run_pc' = "func"
    /\ UNCHANGED <<running, functime, interval_sec, init_sec, wake, clock,
                   stop_pc, invocations, stops>>
    /\ UNCHANGED resample_vars

\* Line 638: self._func() is called.
CallFunc ==
    /\ run_pc = "func"
    /\ invocations' = invocations + 1
    /\ run_pc' = "in_func"
    /\ UNCHANGED <<running, functime, interval_sec, init_sec, start, wake, clock,
                   stop_pc, stops>>
    /\ UNCHANGED resample_vars

\* Line 638: self._func() returns.
FuncReturns ==
    /\ run_pc = "in_func"
    /\ run_pc' = "advance"
    /\ UNCHANGED <<running, functime, interval_sec, init_sec, start, wake, clock,
                   stop_pc, invocations, stops>>
    /\ UNCHANGED resample_vars

\* Line 639: self._functime += self.interval_sec
AdvanceFunctime ==
    /\ run_pc = "advance"
    /\ functime' = functime + interval_sec
    /\ run_pc' = "sleep"
    /\ UNCHANGED <<running, interval_sec, init_sec, start, wake, clock,
                   stop_pc, invocations, stops>>
    /\ UNCHANGED resample_vars

\* Lines 640-641: if self._functime - start > 0: time.sleep(self._functime - start)
Sleep ==
    /\ run_pc = "sleep"
    /\ IF functime - start > 0
       THEN /\ wake' = clock + (functime - start)
            /\ run_pc' = "sleeping"
       ELSE /\ wake' = wake
            /\ run_pc' = "while"
    /\ UNCHANGED <<running, functime, interval_sec, init_sec, start, clock,
                   stop_pc, invocations, stops>>
    /\ UNCHANGED resample_vars

\* time.sleep(self._functime - start) returns.
Wake ==
    /\ run_pc = "sleeping"
    /\ clock >= wake
    /\ run_pc' = "while"
    /\ UNCHANGED <<running, functime, interval_sec, init_sec, start, wake, clock,
                   stop_pc, invocations, stops>>
    /\ UNCHANGED resample_vars

\* The caller thread calls stop().
CallStop ==
    /\ stop_pc = "ready"
    /\ stops < MaxStops
    /\ stop_pc' = "stop"
    /\ UNCHANGED <<running, functime, interval_sec, init_sec, start, wake, clock,
                   run_pc, invocations, stops>>
    /\ UNCHANGED resample_vars

\* Lines 643-645: self._running = False, and stop() returns.
stop ==
    /\ stop_pc = "stop"
    /\ running' = FALSE
    /\ stops' = stops + 1
    /\ stop_pc' = "ready"
    /\ UNCHANGED <<functime, interval_sec, init_sec, start, wake, clock,
                   run_pc, invocations>>
    /\ UNCHANGED resample_vars

\* A second passes.
Tick ==
    /\ clock < MaxClock
    /\ clock' = clock + 1
    /\ UNCHANGED <<running, functime, interval_sec, init_sec, start, wake,
                   run_pc, stop_pc, invocations, stops>>
    /\ UNCHANGED resample_vars

\* The steps of run().
run ==
    \/ InitSleep \/ InitWake \/ SetFunctime \/ TestRunning \/ ReadStart
    \/ CallFunc \/ FuncReturns \/ AdvanceFunctime \/ Sleep \/ Wake

NextTask == run \/ CallStop \/ stop \/ Tick

SpecTask == InitTask /\ [][NextTask]_vars

\* C13 as claimed: under every interleaving of the task thread with a caller
\* of stop(), once a call of stop() has returned the task thread begins no
\* invocation of the callback; and a further call of stop() changes nothing
\* of the task.
C13_NoInvocationAfterStop ==
    [][/\ stops > 0 => invocations' = invocations
       /\ (stops > 0 /\ stops' > stops) => running' = running]_vars

====
